---- MODULE Spec2Model ----
(***************************************************************************)
(* Query-compilation core of the query engine:                             *)
(*   - query_document/mod.rs: BatchDocument, batch compaction              *)
(*   - query_graph_builder/write/nested/update_nested.rs: nested update    *)
(*     and nested update-many graph expansion                              *)
(***************************************************************************)
EXTENDS Integers, Sequences, FiniteSets, TLC

VARIABLES
    doc,        \* the BatchDocument in hand
    prev,       \* the BatchDocument compact() was last applied to
    call,       \* the arguments of the nested-write builder call
    next_item,  \* index of the next item of the builder's loop
    graph,      \* the QueryGraph: nodes and edges
    result,     \* the builder's return value
    finalized,  \* nodes the interpreter has finalized
    found,      \* completed nodes and the identifiers each returned
    ran,        \* edges whose closure has run
    failure     \* the error that stopped the interpreter

batchVars == <<doc, prev>>

nestedVars == <<call, next_item, graph, result, finalized, found, ran, failure>>

vars == <<doc, prev, call, next_item, graph, result, finalized, found, ran, failure>>

(***************************************************************************)
(* Bounds                                                                  *)
(***************************************************************************)
MaxOps == 3

MaxItems == 2

(***************************************************************************)
(* Generic helpers                                                         *)
(***************************************************************************)
Range(s) == {s[i] : i \in 1..Len(s)}

BoundedSeq(S, n) == UNION {[1..k -> S] : k \in 0..n}

RECURSIVE Flatten(_)
Flatten(ss) == IF ss = <<>> THEN <<>> ELSE Head(ss) \o Flatten(Tail(ss))

Count(s, x) == Cardinality({i \in 1..Len(s) : s[i] = x})

\* Keeps the first occurrence of every element, in order.
RECURSIVE Dedup(_)
Dedup(s) ==
    IF s = <<>> THEN <<>>
    ELSE LET init == Dedup(SubSeq(s, 1, Len(s) - 1))
             last == s[Len(s)]
         IN IF last \in Range(init) THEN init ELSE Append(init, last)

None == [tag |-> "None"]
Some(v) == [tag |-> "Some", value |-> v]

(***************************************************************************)
(* PrismaValue: scalars, lists and objects (ordered key/value pairs)       *)
(***************************************************************************)
Scalar(n) == [tag |-> "Scalar", int |-> n, obj |-> <<>>]
List == [tag |-> "List", int |-> 0, obj |-> <<>>]
Object(pairs) == [tag |-> "Object", int |-> 0, obj |-> pairs]

EQUALS == "equals"
WHERE == "where"

(***************************************************************************)
(* Schema catalog (read-only collaborator)                                 *)
(***************************************************************************)
\* Query fields known to the schema: name -> model and find-unique tag.
QueryFields ==
    [findUniqueUser |-> [model |-> "User", find_unique |-> TRUE],
     findUniquePost |-> [model |-> "Post", find_unique |-> TRUE],
     findManyUser   |-> [model |-> "User", find_unique |-> FALSE]]

\* schema.find_query_field(name).model()
FieldModel(name) == QueryFields[name].model

\* model.fields().find_from_scalar(key) is Ok
find_from_scalar(model, key) ==
    \/ model = "User" /\ key \in {"id", "email"}
    \/ model = "Post" /\ key \in {"id"}

\* resolve_compound_field(key, model).is_some()
resolve_compound_field(key, model) == model = "User" /\ key = "id_email"

(***************************************************************************)
(* Operation / Selection                                                   *)
(***************************************************************************)
Operation(kind, name, arguments, nested) ==
    [kind |-> kind, name |-> name, arguments |-> arguments, nested_selections |-> nested]

FindUnique(name, nested, where_obj) ==
    Operation("Read", name, << <<WHERE, Object(where_obj)>> >>, nested)

\* Operation::is_find_unique: a single-record read of the schema with exactly
\* one argument, an object.
is_find_unique(op) ==
    /\ op.kind = "Read"
    /\ op.name \in DOMAIN QueryFields
    /\ QueryFields[op.name].find_unique
    /\ Len(op.arguments) = 1
    /\ op.arguments[1][2].tag = "Object"

\* Selection::contains_nested_selection (by name)
contains_nested_selection(nested, name) == name \in Range(nested)

(***************************************************************************)
(* BatchDocument                                                           *)
(***************************************************************************)
Multi(operations, transaction) ==
    [tag |-> "Multi", operations |-> operations, transaction |-> transaction]

Compact(compacted) == [tag |-> "Compact", compacted |-> compacted]

\* A panic (unwrap / expect failure) inside compaction.
Panic == [tag |-> "Panic"]

NoDoc == [tag |-> "NoDoc"]

\* BatchDocumentTransaction::new
BatchDocumentTransaction(isolation_level) == [isolation_level |-> isolation_level]

\* BatchDocumentTransaction::isolation_level
isolation_level(transaction) == transaction.isolation_level

\* The filter object of a find-unique operation: arguments()[0].1.into_object()
where_obj_of(op) == op.arguments[1][2].obj

HasEquals(obj) == \E i \in 1..Len(obj) : obj[i][1] = EQUALS

\* Mutant of invalid_compact_entry: a scalar field's filter object is not
\* searched for "equals".
invalid_compact_entry_any_object(key, val, model) ==
    IF val.tag = "Object" /\ resolve_compound_field(key, model)
    THEN FALSE
    ELSE ~find_from_scalar(model, key)

\* One entry of the where object, as judged by invalid_compact_filter.
invalid_compact_entry(key, val, model) ==
    IF val.tag = "Object" /\ resolve_compound_field(key, model)
    THEN FALSE
    ELSE IF find_from_scalar(model, key)
         THEN IF val.tag = "Object" THEN ~HasEquals(val.obj) ELSE FALSE
         ELSE TRUE

invalid_compact_filter(op) ==
    IF ~is_find_unique(op)
    THEN TRUE
    ELSE LET where_obj == where_obj_of(op)
             model == FieldModel(op.name)
         IN \E i \in 1..Len(where_obj) :
                invalid_compact_entry(where_obj[i][1], where_obj[i][2], model)

\* The per-operation test of can_compact for the operations after the first.
same_shape(first, op) ==
    /\ is_find_unique(op)
    /\ first.name = op.name
    /\ Len(first.nested_selections) = Len(op.nested_selections)
    /\ \A i \in 1..Len(first.nested_selections) :
           contains_nested_selection(op.nested_selections, first.nested_selections[i])

can_compact(d) ==
    IF d.tag = "Multi"
    THEN IF d.operations # <<>> /\ is_find_unique(Head(d.operations))
         THEN LET first == Head(d.operations)
                  rest == Tail(d.operations)
                  has_invalid_compact_filter ==
                      \E i \in 1..Len(d.operations) : invalid_compact_filter(d.operations[i])
              IN IF has_invalid_compact_filter
                 THEN FALSE
                 ELSE \A i \in 1..Len(rest) : same_shape(first, rest[i])
         ELSE FALSE
    ELSE FALSE

(***************************************************************************)
(* extract_filter                                                          *)
(***************************************************************************)
\* The expect("we only support scalar equals filters") fails.
extract_entry_panics(key, val, model) ==
    /\ val.tag = "Object"
    /\ ~resolve_compound_field(key, model)
    /\ ~HasEquals(val.obj)

\* Mutant of extract_entry: a compound key is kept as one (key, object) pair.
extract_entry_compound_kept(key, val, model) ==
    IF val.tag = "Object" /\ HasEquals(val.obj)
    THEN << <<key, val.obj[CHOOSE i \in 1..Len(val.obj) : val.obj[i][1] = EQUALS][2]>> >>
    ELSE << <<key, val>> >>

extract_entry(key, val, model) ==
    IF val.tag = "Object" /\ resolve_compound_field(key, model)
    THEN val.obj
    ELSE IF val.tag = "Object"
         THEN LET i == CHOOSE i \in 1..Len(val.obj) :
                          /\ val.obj[i][1] = EQUALS
                          /\ \A j \in 1..(i - 1) : val.obj[j][1] # EQUALS
              IN << <<key, val.obj[i][2]>> >>
         ELSE << <<key, val>> >>

extract_filter_panics(where_obj, model) ==
    \E i \in 1..Len(where_obj) : extract_entry_panics(where_obj[i][1], where_obj[i][2], model)

extract_filter(where_obj, model) ==
    Flatten([i \in 1..Len(where_obj) |-> extract_entry(where_obj[i][1], where_obj[i][2], model)])

(***************************************************************************)
(* SelectionSet / In                                                       *)
(***************************************************************************)
SelectionSetNew == <<>>

\* SelectionSet::push
push(acc, field, filter) == Append(acc, <<field, filter>>)

RECURSIVE push_all(_, _)
push_all(acc, filters) ==
    IF filters = <<>> THEN acc
    ELSE push_all(push(acc, Head(filters)[1], Head(filters)[2]), Tail(filters))

\* SelectionSet::keys: the fields of the set, each once.
keys_of(selection_set) == Dedup([i \in 1..Len(selection_set) |-> selection_set[i][1]])

\* In::new(selection_set) as an argument value
In(selection_set) == [tag |-> "In", int |-> 0, obj |-> selection_set]

\* Vec<SelectionArgument> collected into a HashMap (a later pair overwrites).
ToMap(pairs) ==
    [k \in {pairs[i][1] : i \in 1..Len(pairs)} |->
        pairs[CHOOSE i \in 1..Len(pairs) :
                  pairs[i][1] = k /\ \A j \in (i + 1)..Len(pairs) : pairs[j][1] # k][2]]

\* name.replacen("findUnique", "findMany", 1)
FindManyName(name) ==
    CASE name = "findUniqueUser" -> "findManyUser"
      [] name = "findUniquePost" -> "findManyPost"
      [] OTHER -> name

\* name.replacen("findUnique", "", 1)
NameStub(name) ==
    CASE name = "findUniqueUser" -> "User"
      [] name = "findUniquePost" -> "Post"
      [] name = "findManyUser" -> "findManyUser"
      [] OTHER -> name

(***************************************************************************)
(* CompactedDocument::from_operations                                      *)
(***************************************************************************)
\* An unwrap / expect of from_operations fails.
from_operations_panics(ops) ==
    \/ ops = <<>>
    \/ Head(ops).name \notin DOMAIN QueryFields
    \/ \E i \in 1..Len(ops) : ops[i].kind # "Read"
    \/ \E i \in 1..Len(ops) : ops[i].arguments = <<>>
    \/ \E i \in 1..Len(ops) : ops[i].arguments[1][2].tag # "Object"
    \/ \E i \in 1..Len(ops) : extract_filter_panics(where_obj_of(ops[i]), FieldModel(Head(ops).name))

\* The fold over the selections: every flattened filter pushed in order.
RECURSIVE fold_selection_set(_, _, _)
fold_selection_set(acc, selections, model) ==
    IF selections = <<>> THEN acc
    ELSE fold_selection_set(
             push_all(acc, extract_filter(where_obj_of(Head(selections)), model)),
             Tail(selections), model)

\* Mutant of push_key_selections: every key is pushed, requested or not.
push_key_selections_unchecked(nested, keys) == nested \o keys

\* The key fields pushed onto the builder's nested selections.
RECURSIVE push_key_selections(_, _)
push_key_selections(nested, keys) ==
    IF keys = <<>> THEN nested
    ELSE push_key_selections(
             IF ~contains_nested_selection(nested, Head(keys))
             THEN Append(nested, Head(keys))
             ELSE nested,
             Tail(keys))

\* The findMany selection built from the findUnique selections.
compacted_selection(ops) ==
    LET model == FieldModel(Head(ops).name)
        selection_set == fold_selection_set(SelectionSetNew, ops, model)
    IN Operation("Read",
                 FindManyName(Head(ops).name),
                 << <<WHERE, In(selection_set)>> >>,
                 push_key_selections(Head(ops).nested_selections, keys_of(selection_set)))

\* The original nested selection names.
original_nested_selection(ops) == Head(ops).nested_selections

\* Mutant of compacted_arguments: equal filter maps are merged into one entry.
compacted_arguments_merged(ops) ==
    LET model == FieldModel(Head(ops).name)
    IN Dedup([i \in 1..Len(ops) |-> ToMap(extract_filter(where_obj_of(ops[i]), model))])

\* The per-request argument maps.
compacted_arguments(ops) ==
    LET model == FieldModel(Head(ops).name)
    IN [i \in 1..Len(ops) |-> ToMap(extract_filter(where_obj_of(ops[i]), model))]

\* The argument keys of the first request (HashMap iteration: no order).
compacted_keys(arguments) ==
    LET first == arguments[1]
    IN UNION {IF first[k].tag = "Object"
              THEN {first[k].obj[i][1] : i \in 1..Len(first[k].obj)}
              ELSE {k} : k \in DOMAIN first}

from_operations(ops) ==
    LET arguments == compacted_arguments(ops)
    IN [name |-> NameStub(Head(ops).name),
        arguments |-> arguments,
        nested_selection |-> original_nested_selection(ops),
        keys |-> compacted_keys(arguments),
        operation |-> compacted_selection(ops)]

\* Mutant of compact: a batch that is not compacted loses its transaction.
compact_untransacted(d) ==
    IF d.tag = "Multi" /\ can_compact(d)
    THEN IF from_operations_panics(d.operations)
         THEN Panic
         ELSE Compact(from_operations(d.operations))
    ELSE IF d.tag = "Multi" THEN Multi(d.operations, None) ELSE d

\* BatchDocument::compact
compact(d) ==
    IF d.tag = "Multi" /\ can_compact(d)
    THEN IF from_operations_panics(d.operations)
         THEN Panic
         ELSE Compact(from_operations(d.operations))
    ELSE d

is_compact(d) == d.tag = "Compact"

(***************************************************************************)
(* Requests submitted to the compactor                                     *)
(***************************************************************************)
EqualsFilter(n) == Object(<< <<EQUALS, Scalar(n)>> >>)

WhereObjects ==
    { << <<"id", Scalar(1)>> >>,
      << <<"id", Scalar(2)>> >>,
      << <<"email", Scalar(2)>> >>,
      << <<"id", EqualsFilter(1)>> >>,
      << <<"id", Object(<< <<"gt", Scalar(1)>> >>)>> >>,
      << <<"id", Object(<< <<"gt", Scalar(2)>>, <<EQUALS, Scalar(1)>> >>)>> >>,
      << <<"id_email", Object(<< <<"id", Scalar(1)>>, <<"email", Scalar(2)>> >>)>> >>,
      << <<"id_email", Object(<< <<"id", Scalar(2)>>, <<"email", Scalar(2)>> >>)>> >>,
      << <<"id_email", Scalar(1)>> >>,
      << <<"posts", Object(<< <<"some", Object(<<>>)>> >>)>> >>,
      << <<"AND", List>> >>,
      << <<"id", Scalar(1)>>, <<"email", EqualsFilter(2)>> >>,
      << <<"id", Scalar(1)>>, <<"email", Object(<< <<"not", Scalar(2)>> >>)>> >> }

NestedLists ==
    { <<>>, <<"id", "email">>, <<"email", "id">>, <<"email", "email">> }

\* The operations a batch is made of.
Palette ==
    {FindUnique("findUniqueUser", <<"email">>, w) : w \in WhereObjects}
    \cup {FindUnique("findUniqueUser", n, << <<"email", Scalar(2)>> >>) : n \in NestedLists}
    \cup { FindUnique("findUniquePost", <<"email">>, << <<"id", Scalar(1)>> >>),
           Operation("Read", "findManyUser", << <<WHERE, Object(<< <<"id", Scalar(1)>> >>)>> >>, <<"email">>),
           Operation("Write", "createOneUser", << <<"data", Object(<< <<"id", Scalar(1)>> >>)>> >>, <<"email">>),
           Operation("Read", "findUniqueUser", << <<WHERE, Scalar(1)>> >>, <<"email">>),
           Operation("Read", "findUniqueUser", <<>>, <<"email">>) }

Transactions ==
    { None,
      Some(BatchDocumentTransaction(None)),
      Some(BatchDocumentTransaction(Some("Serializable"))) }

(***************************************************************************)
(* QueryGraph                                                              *)
(***************************************************************************)
Ok == [tag |-> "Ok"]
Err(error, model, relation) ==
    [tag |-> "Err", error |-> error, model |-> model, relation |-> relation]
Building == [tag |-> "Building"]
Aborted == [tag |-> "Panic"]

EmptyFilter == "empty"

\* A graph node. item is the index of the input item it was built for
\* (0 for the parent).
Node(kind, item, model, filter, data) ==
    [kind |-> kind, item |-> item, model |-> model, filter |-> filter,
     selectors |-> None, parent_results |-> None, data |-> data]

Edge(from, to, dependency, field, closure) ==
    [from |-> from, to |-> to, dependency |-> dependency, field |-> field,
     closure |-> closure]

NoClosure == [fn |-> "none", model |-> "", relation |-> ""]

\* QueryGraph::create_node
create_node(g, node) == [g EXCEPT !.nodes = Append(@, node)]

\* QueryGraph::create_edge
create_edge(g, from, to, dependency, field, closure) ==
    [g EXCEPT !.edges = Append(@, Edge(from, to, dependency, field, closure))]

\* model.primary_identifier()
primary_identifier(model) == <<model, "id">>

\* utils::insert_find_children_by_parent_node: a read of the related records,
\* scoped by the filter, fed the parent's identifiers by an edge from the parent.
insert_find_children_by_parent_node(g, parent, field, filter, item) ==
    LET g1 == create_node(g, Node("FindChildren", item, field.related_model, filter, "none"))
    IN create_edge(g1, parent, Len(g1.nodes), "ProjectedDataDependency",
                   primary_identifier(field.model),
                   [fn |-> "set_parent_results", model |-> "", relation |-> ""])

\* update::update_record_node: the node's record filter is the filter given.
update_record_node(g, filter, model, data, item) ==
    create_node(g, Node("UpdateRecord", item, model, filter, data))

\* update::update_many_record_node
update_many_record_node(g, filter, model, data, item) ==
    create_node(g, Node("UpdateManyRecords", item, model, filter, data))

\* utils::insert_emulated_on_update: the emulation subtree between the find
\* node and the update node, when the connector asks for emulation.
insert_emulated_on_update(g, emulate, model, find, update, item) ==
    IF emulate
    THEN LET g1 == create_node(g, Node("EmulatedOnUpdate", item, model, EmptyFilter, "none"))
             emu == Len(g1.nodes)
             g2 == create_edge(g1, find, emu, "ExecutionOrder", <<>>, NoClosure)
         IN create_edge(g2, emu, update, "ExecutionOrder", <<>>, NoClosure)
    ELSE g

(***************************************************************************)
(* Parsed input values of a nested update                                  *)
(***************************************************************************)
\* A ParsedInputValue item. map: it is a ParsedInputValue::Map; envelope:
\* map.is_nested_to_one_update_envelope(); where / data: the entries of the
\* map ("absent", "scalar" for a value that is no map, "unresolvable" for a
\* where map the filter extraction rejects, else the filter or data it holds).
Item(map, envelope, where, data) ==
    [map |-> map, envelope |-> envelope, where |-> where, data |-> data]

\* The outcome of reading (data, filter) off one item.
Parsed(data, filter) == [tag |-> "Ok", data |-> data, filter |-> filter, error |-> ""]
ParseErr(error) == [tag |-> "Err", data |-> "none", filter |-> EmptyFilter, error |-> error]
ParsePanic == [tag |-> "Panic", data |-> "none", filter |-> EmptyFilter, error |-> "unwrap"]

\* try_into::<ParsedInputMap>() of a where / data entry fails
not_a_map(entry) == entry = "scalar"

\* extract_unique_filter / extract_filter of a where map
extract_where_fails(where) == where = "unresolvable"

\* nested_update, the branch on parent_relation_field.is_list()
parse_update_item(is_list, value) ==
    IF is_list
    THEN IF ~value.map THEN ParseErr("conversion")
         ELSE IF value.where = "absent" THEN ParsePanic
         ELSE IF not_a_map(value.where) THEN ParseErr("conversion")
         ELSE IF extract_where_fails(value.where) THEN ParseErr("filter")
         ELSE IF value.data = "absent" THEN ParsePanic
         ELSE Parsed(value.data, value.where)
    ELSE IF value.map /\ value.envelope
         THEN IF value.where # "absent"
              THEN IF not_a_map(value.where) THEN ParseErr("conversion")
                   ELSE IF extract_where_fails(value.where) THEN ParseErr("filter")
                   ELSE IF value.data = "absent" THEN ParsePanic
                   ELSE Parsed(value.data, value.where)
              ELSE IF value.data = "absent" THEN ParsePanic
                   ELSE Parsed(value.data, EmptyFilter)
         ELSE Parsed(IF value.map THEN value.data ELSE "scalar", EmptyFilter)

BuildResult(g, r) == [graph |-> g, result |-> r]

\* Mutant of update_target_filter: the update node gets Filter::empty().
update_target_filter_empty(filter) == EmptyFilter

\* The filter nested_update hands to update::update_record_node.
update_target_filter(filter) == filter

\* Mutant of nested_update_item: the emulation subtree is inserted before the
\* edge from the find node to the update node is created.
nested_update_item_edge_last(g, c, value, item) ==
    LET parsed == parse_update_item(c.field.is_list, value)
    IN IF parsed.tag = "Panic" THEN BuildResult(g, Aborted)
       ELSE IF parsed.tag = "Err"
            THEN BuildResult(g, Err(parsed.error, c.child_model, c.field.relation))
       ELSE LET g1 == insert_find_children_by_parent_node(g, c.parent, c.field, parsed.filter, item)
                find_child_records_node == Len(g1.nodes)
            IN IF not_a_map(parsed.data)
               THEN BuildResult(g1, Err("conversion", c.child_model, c.field.relation))
               ELSE LET g2 == update_record_node(g1, update_target_filter(parsed.filter),
                                                 c.child_model, parsed.data, item)
                        update_node == Len(g2.nodes)
                        g3 == insert_emulated_on_update(g2, c.emulate, c.child_model,
                                  find_child_records_node, update_node, item)
                    IN BuildResult(
                           create_edge(g3, find_child_records_node, update_node,
                               "ProjectedDataDependency",
                               primary_identifier(c.field.related_model),
                               [fn |-> "set_selectors",
                                model |-> c.child_model,
                                relation |-> c.field.relation]),
                           Ok)

\* One iteration of the loop of nested_update.
nested_update_item(g, c, value, item) ==
    LET parsed == parse_update_item(c.field.is_list, value)
    IN IF parsed.tag = "Panic" THEN BuildResult(g, Aborted)
       ELSE IF parsed.tag = "Err"
            THEN BuildResult(g, Err(parsed.error, c.child_model, c.field.relation))
       ELSE LET g1 == insert_find_children_by_parent_node(g, c.parent, c.field, parsed.filter, item)
                find_child_records_node == Len(g1.nodes)
            IN IF not_a_map(parsed.data)
               THEN BuildResult(g1, Err("conversion", c.child_model, c.field.relation))
               ELSE LET g2 == update_record_node(g1, update_target_filter(parsed.filter),
                                                 c.child_model, parsed.data, item)
                        update_node == Len(g2.nodes)
                        g3 == create_edge(g2, find_child_records_node, update_node,
                                  "ProjectedDataDependency",
                                  primary_identifier(c.field.related_model),
                                  [fn |-> "set_selectors",
                                   model |-> c.child_model,
                                   relation |-> c.field.relation])
                    IN BuildResult(
                           insert_emulated_on_update(g3, c.emulate, c.child_model,
                               find_child_records_node, update_node, item),
                           Ok)

\* Mutant of nested_update_many_item: the edge runs from the update node to
\* the find node.
nested_update_many_item_reversed(g, c, value, item) ==
    IF ~value.map THEN BuildResult(g, Err("conversion", c.child_model, c.field.relation))
    ELSE IF value.where = "absent" \/ value.data = "absent" THEN BuildResult(g, Aborted)
    ELSE IF not_a_map(value.data) \/ not_a_map(value.where)
         THEN BuildResult(g, Err("conversion", c.child_model, c.field.relation))
    ELSE IF extract_where_fails(value.where)
         THEN BuildResult(g, Err("filter", c.child_model, c.field.relation))
    ELSE LET g1 == insert_find_children_by_parent_node(g, c.parent, c.field, value.where, item)
             find_child_records_node == Len(g1.nodes)
             g2 == update_many_record_node(g1, EmptyFilter, c.child_model, value.data, item)
             update_many_node == Len(g2.nodes)
         IN BuildResult(
                create_edge(g2, update_many_node, find_child_records_node,
                    "ProjectedDataDependency",
                    primary_identifier(c.field.related_model),
                    [fn |-> "set_record_filter", model |-> "", relation |-> ""]),
                Ok)

\* One iteration of the loop of nested_update_many.
nested_update_many_item(g, c, value, item) ==
    IF ~value.map THEN BuildResult(g, Err("conversion", c.child_model, c.field.relation))
    ELSE IF value.where = "absent" \/ value.data = "absent" THEN BuildResult(g, Aborted)
    ELSE IF not_a_map(value.data) \/ not_a_map(value.where)
         THEN BuildResult(g, Err("conversion", c.child_model, c.field.relation))
    ELSE IF extract_where_fails(value.where)
         THEN BuildResult(g, Err("filter", c.child_model, c.field.relation))
    ELSE LET g1 == insert_find_children_by_parent_node(g, c.parent, c.field, value.where, item)
             find_child_records_node == Len(g1.nodes)
             g2 == update_many_record_node(g1, EmptyFilter, c.child_model, value.data, item)
             update_many_node == Len(g2.nodes)
         IN BuildResult(
                create_edge(g2, find_child_records_node, update_many_node,
                    "ProjectedDataDependency",
                    primary_identifier(c.field.related_model),
                    [fn |-> "set_record_filter", model |-> "", relation |-> ""]),
                Ok)

(***************************************************************************)
(* Edge closures                                                           *)
(***************************************************************************)
ClosureOk(node) == [tag |-> "Ok", node |-> node, error |-> Ok]
ClosureErr(node, error) == [tag |-> "Err", node |-> node, error |-> error]

\* Mutant of pop: the first identifier is taken instead of the last.
pop_front(child_ids) ==
    IF child_ids = <<>> THEN None ELSE Some(child_ids[1])

\* child_ids.pop()
pop(child_ids) ==
    IF child_ids = <<>> THEN None ELSE Some(child_ids[Len(child_ids)])

\* Mutant of update_closure: no identifier found is not an error.
update_closure_lenient(closure, update_node, child_ids) ==
    IF child_ids = <<>> \/ update_node.kind # "UpdateRecord"
    THEN ClosureOk(update_node)
    ELSE ClosureOk([update_node EXCEPT !.selectors = Some(<<child_ids[Len(child_ids)]>>)])

\* The closure of the edge nested_update creates.
update_closure(closure, update_node, child_ids) ==
    LET popped == pop(child_ids)
    IN IF popped = None
       THEN ClosureErr(update_node, Err("RecordNotFound", closure.model, closure.relation))
       ELSE IF update_node.kind = "UpdateRecord"
            THEN ClosureOk([update_node EXCEPT !.selectors = Some(<<popped.value>>)])
            ELSE ClosureOk(update_node)

\* Mutant of update_many_closure: only the last identifier is installed.
update_many_closure_last(closure, update_many_node, child_ids) ==
    ClosureOk([update_many_node EXCEPT
                  !.filter = EmptyFilter,
                  !.selectors = Some(IF child_ids = <<>> THEN <<>>
                                     ELSE <<child_ids[Len(child_ids)]>>)])

\* The closure of the edge nested_update_many creates:
\* ur.record_filter = child_ids.into()
update_many_closure(closure, update_many_node, child_ids) ==
    IF update_many_node.kind = "UpdateManyRecords"
    THEN ClosureOk([update_many_node EXCEPT !.filter = EmptyFilter,
                                            !.selectors = Some(child_ids)])
    ELSE ClosureOk(update_many_node)

\* The closure of the edge from the parent to a find-children node.
parent_closure(closure, find_node, parent_ids) ==
    ClosureOk([find_node EXCEPT !.parent_results = Some(parent_ids)])

run_closure(closure, node, ids) ==
    CASE closure.fn = "set_selectors" -> update_closure(closure, node, ids)
      [] closure.fn = "set_record_filter" -> update_many_closure(closure, node, ids)
      [] closure.fn = "set_parent_results" -> parent_closure(closure, node, ids)

(***************************************************************************)
(* Calls of the nested-write builders                                      *)
(***************************************************************************)
\* Relation fields of the parent model.
RelationFields ==
    { [name |-> "posts", model |-> "User", related_model |-> "Post",
       relation |-> "PostToUser", is_list |-> TRUE],
      [name |-> "profile", model |-> "User", related_model |-> "Profile",
       relation |-> "ProfileToUser", is_list |-> FALSE] }

\* Items of an update on a to-many relation: { where, data }.
ToManyItems ==
    { Item(TRUE, FALSE, "f1", "d1"),
      Item(TRUE, FALSE, "f2", "d1"),
      Item(TRUE, FALSE, "unresolvable", "d1"),
      Item(TRUE, FALSE, "f1", "scalar"),
      Item(FALSE, FALSE, "absent", "scalar") }

\* Items of an update on a to-one relation: the envelope { where?, data }
\* or the data itself.
ToOneItems ==
    { Item(TRUE, TRUE, "absent", "d1"),
      Item(TRUE, TRUE, "f1", "d1"),
      Item(TRUE, TRUE, "unresolvable", "d1"),
      Item(TRUE, FALSE, "absent", "d1"),
      Item(FALSE, FALSE, "absent", "scalar") }

Call(fn, field, emulate, value) ==
    [fn |-> fn, parent |-> 1, field |-> field, child_model |-> field.related_model,
     emulate |-> emulate, value |-> value]

NoCall == [fn |-> "none"]

\* utils::coerce_vec(value): a to-one relation takes one item, a to-many
\* relation a list of items.
Calls ==
    {Call(fn, field, emulate, value) :
        fn \in {"nested_update", "nested_update_many"},
        field \in {f \in RelationFields : f.is_list},
        emulate \in BOOLEAN,
        value \in BoundedSeq(ToManyItems, MaxItems)}
    \cup
    {Call("nested_update", field, emulate, <<value>>) :
        field \in {f \in RelationFields : ~f.is_list},
        emulate \in BOOLEAN,
        value \in ToOneItems}

\* Identifier sequences a find-children read can return.
ChildIds == { <<>>, <<1>>, <<2>>, <<1, 2>>, <<2, 1>> }

ParentIds == <<1>>

EmptyGraph == [nodes |-> <<Node("Parent", 0, "User", EmptyFilter, "d0")>>, edges |-> <<>>]

(***************************************************************************)
(* Specification of the batch compactor                                    *)
(***************************************************************************)
NestedIdle ==
    /\ call = NoCall
    /\ next_item = 0
    /\ graph = EmptyGraph
    /\ result = Building
    /\ finalized = {}
    /\ found = <<>>
    /\ ran = {}
    /\ failure = None

\* BatchDocument::new
Init ==
    /\ \E operations \in BoundedSeq(Palette, MaxOps), transaction \in Transactions :
           doc = Multi(operations, transaction)
    /\ prev = NoDoc
    /\ NestedIdle

\* doc.compact(schema)
CompactStep ==
    /\ doc.tag # "Panic"
    /\ doc' = compact(doc)
    /\ prev' = doc
    /\ UNCHANGED nestedVars

Next == CompactStep

Spec == Init /\ [][Next]_vars

(***************************************************************************)
(* Specification of the nested-write builders and of the interpreter that  *)
(* runs the graph they build                                               *)
(***************************************************************************)
InitNested ==
    /\ doc = NoDoc
    /\ prev = NoDoc
    /\ call \in Calls
    /\ next_item = 1
    /\ graph = EmptyGraph
    /\ result = Building
    /\ finalized = {}
    /\ found = <<>>
    /\ ran = {}
    /\ failure = None

\* Mutant of BuildStep: a failed item is skipped and the loop goes on.
BuildStep_continue(built) ==
    /\ graph' = built.graph
    /\ next_item' = next_item + 1
    /\ result' = result
    /\ UNCHANGED <<doc, prev, call, finalized, found, ran, failure>>

BuildStep(built) ==
    /\ graph' = built.graph
    /\ IF built.result = Ok
       THEN next_item' = next_item + 1 /\ result' = result
       ELSE next_item' = next_item /\ result' = built.result
    /\ UNCHANGED <<doc, prev, call, finalized, found, ran, failure>>

\* nested_update: one iteration of the loop over the items.
NestedUpdateItem ==
    /\ call.fn = "nested_update"
    /\ result = Building
    /\ next_item <= Len(call.value)
    /\ BuildStep(nested_update_item(graph, call, call.value[next_item], next_item))

\* nested_update_many: one iteration of the loop over the items.
NestedUpdateManyItem ==
    /\ call.fn = "nested_update_many"
    /\ result = Building
    /\ next_item <= Len(call.value)
    /\ BuildStep(nested_update_many_item(graph, call, call.value[next_item], next_item))

\* The loop is over: Ok(()).
BuilderReturn ==
    /\ result = Building
    /\ next_item > Len(call.value)
    /\ result' = Ok
    /\ UNCHANGED <<doc, prev, call, next_item, graph, finalized, found, ran, failure>>

Incoming(n) == {e \in 1..Len(graph.edges) : graph.edges[e].to = n}

Running == result = Ok /\ failure = None

\* The interpreter runs the closure of an edge whose parent has completed.
RunClosure(e) ==
    /\ Running
    /\ graph.edges[e].dependency = "ProjectedDataDependency"
    /\ e \notin ran
    /\ graph.edges[e].from \in DOMAIN found
    /\ graph.edges[e].to \notin finalized
    /\ \A e2 \in Incoming(graph.edges[e].to) :
           (e2 < e /\ graph.edges[e2].dependency = "ProjectedDataDependency") => e2 \in ran
    /\ LET edge == graph.edges[e]
           out == run_closure(edge.closure, graph.nodes[edge.to], found[edge.from])
       IN /\ ran' = ran \cup {e}
          /\ IF out.tag = "Ok"
             THEN graph' = [graph EXCEPT !.nodes[edge.to] = out.node] /\ failure' = failure
             ELSE graph' = graph /\ failure' = Some(out.error)
    /\ UNCHANGED <<doc, prev, call, next_item, result, finalized, found>>

\* Every incoming edge's parent has completed and every closure has run.
Finalize(n) ==
    /\ Running
    /\ n \notin finalized
    /\ \A e \in Incoming(n) :
           /\ graph.edges[e].from \in DOMAIN found
           /\ graph.edges[e].dependency = "ProjectedDataDependency" => e \in ran
    /\ finalized' = finalized \cup {n}
    /\ UNCHANGED <<doc, prev, call, next_item, graph, result, found, ran, failure>>

\* The finalized node is handed to the storage layer and completes.
Execute(n) ==
    /\ Running
    /\ n \in finalized
    /\ n \notin DOMAIN found
    /\ \E ids \in (CASE graph.nodes[n].kind = "FindChildren" -> ChildIds
                     [] graph.nodes[n].kind = "Parent" -> {ParentIds}
                     [] OTHER -> {<<>>}) :
           found' = [m \in DOMAIN found \cup {n} |-> IF m = n THEN ids ELSE found[m]]
    /\ UNCHANGED <<doc, prev, call, next_item, graph, result, finalized, ran, failure>>

NextNested ==
    \/ NestedUpdateItem
    \/ NestedUpdateManyItem
    \/ BuilderReturn
    \/ \E e \in 1..Len(graph.edges) : RunClosure(e)
    \/ \E n \in 1..Len(graph.nodes) : Finalize(n)
    \/ \E n \in 1..Len(graph.nodes) : Execute(n)

SpecNested == InitNested /\ [][NextNested]_vars

(***************************************************************************)
(* Properties of the batch compactor                                       *)
(***************************************************************************)
\* compact() has just been applied to a Multi batch.
Compacting == prev.tag = "Multi"

NameSet(op) == Range(op.nested_selections)

\* A filter value that is an equality test: a bare value, or an object whose
\* entries are all "equals".
EqualityTest(val) ==
    \/ val.tag # "Object"
    \/ val.obj # <<>> /\ \A i \in 1..Len(val.obj) : val.obj[i][1] = EQUALS

\* An entry of a filter that makes the filter unsafe to compact.
UnsafeEntry(key, val, model) ==
    \/ find_from_scalar(model, key) /\ ~EqualityTest(val)
    \/ ~find_from_scalar(model, key) /\ ~resolve_compound_field(key, model)

UnsafeFilter(op) ==
    IF ~is_find_unique(op)
    THEN TRUE
    ELSE \E i \in 1..Len(where_obj_of(op)) :
             UnsafeEntry(where_obj_of(op)[i][1], where_obj_of(op)[i][2], FieldModel(op.name))

\* C1: a Multi batch in which at least one operation has an unsafe filter
\* (a scalar field compared by anything other than an equality test, a key
\* that is neither a scalar field nor a compound unique key, or an operation
\* that is not find-unique shaped) is left Multi, unchanged, by compact().
C1_UnsafeMemberKeepsBatchMulti ==
    (Compacting /\ \E i \in 1..Len(prev.operations) : UnsafeFilter(prev.operations[i]))
        => doc = prev

\* The eligibility conditions of a batch.
Eligible(ops) ==
    /\ ops # <<>>
    /\ \A i \in 1..Len(ops) :
           /\ is_find_unique(ops[i])
           /\ ops[i].name = ops[1].name
           /\ NameSet(ops[i]) = NameSet(ops[1])
           /\ ~UnsafeFilter(ops[i])

\* C2: compact() returns a Compact document if and only if its input is a
\* Multi batch that is non-empty, all find-unique, on one query field, with
\* the same nested-selection names and only compaction-safe filters; in every
\* other case it returns its input unchanged, so compacting twice equals
\* compacting once.
C2_CompactIffEligible ==
    prev # NoDoc =>
        /\ is_compact(doc) <=>
               \/ (prev.tag = "Multi" /\ Eligible(prev.operations))
               \/ is_compact(prev)
        /\ (prev.tag = "Multi" /\ ~Eligible(prev.operations)) => doc = prev
        /\ is_compact(prev) => doc = prev
        /\ compact(doc) = doc

\* The conditions of can_compact other than the nested-selection comparison.
EligibleButForNames(ops) ==
    /\ ops # <<>>
    /\ \A i \in 1..Len(ops) :
           /\ ~invalid_compact_filter(ops[i])
           /\ ops[i].name = ops[1].name

\* C3: a batch is compacted only if every operation has the query field name
\* of the first and a nested-selection name set equal to the first's,
\* compared as sets whatever the order and the repetitions; a batch that
\* differs in some name set stays Multi, and one that lists the same names
\* in another order is still eligible.
C3_SameNameSets ==
    Compacting =>
        /\ is_compact(doc) =>
               \A i \in 1..Len(prev.operations) :
                   /\ prev.operations[i].name = prev.operations[1].name
                   /\ NameSet(prev.operations[i]) = NameSet(prev.operations[1])
        /\ ( /\ EligibleButForNames(prev.operations)
             /\ \A i \in 1..Len(prev.operations) :
                    NameSet(prev.operations[i]) = NameSet(prev.operations[1]) )
               => is_compact(doc)

\* compact() has just turned a Multi batch into a Compact document.
Compacted == Compacting /\ is_compact(doc)

\* The flattened filter of an operation of a batch.
FlatFilter(op) == extract_filter(where_obj_of(op), FieldModel(op.name))

\* The fields in the union of the flattened filters of a batch.
FilterFields(ops) ==
    UNION {{FlatFilter(ops[i])[j][1] : j \in 1..Len(FlatFilter(ops[i]))} : i \in 1..Len(ops)}

\* C8: for a compacted batch of N operations, arguments has exactly N
\* entries and entry i is the flattened filter key/value map of the i-th
\* operation of the original batch, equal maps of different requests kept
\* as separate entries.
C8_ArgumentsInSubmissionOrder ==
    Compacted =>
        /\ Len(doc.compacted.arguments) = Len(prev.operations)
        /\ \A i \in 1..Len(prev.operations) :
               doc.compacted.arguments[i] = ToMap(FlatFilter(prev.operations[i]))

\* Witness of C8: three requests compacted, the first and third with the
\* same key, the second with another.
C8_Witness ==
    /\ Compacted
    /\ Len(prev.operations) = 3
    /\ doc.compacted.arguments[1] = doc.compacted.arguments[3]
    /\ doc.compacted.arguments[1] # doc.compacted.arguments[2]

\* The nested selections of the compacted read.
BulkSelections == doc.compacted.operation.nested_selections

\* The nested selections the caller requested (first operation).
Requested == prev.operations[1].nested_selections

\* C9 as stated: every field of the union of the flattened filters is
\* present exactly once in the compacted read's nested selections, and
\* nested_selection holds exactly the names of the first operation, so a key
\* the caller did not request is in the bulk selection but not in
\* nested_selection.
C9_KeyExactlyOnce ==
    Compacted =>
        /\ \A k \in FilterFields(prev.operations) : Count(BulkSelections, k) = 1
        /\ doc.compacted.nested_selection = Requested
        /\ \A k \in FilterFields(prev.operations) \ Range(Requested) :
               k \in Range(BulkSelections) /\ k \notin Range(doc.compacted.nested_selection)

\* C9 amended: every field of the union of the flattened filters is present
\* in the compacted read's nested selections: exactly once, appended after
\* the caller's selections, when the caller had not requested it, and as
\* often as the caller listed it otherwise (the caller's selections are kept
\* as they are); nested_selection holds exactly the names of the first
\* operation, so an injected key is in the bulk selection but not in
\* nested_selection.
C9_KeyInjectedOnce ==
    Compacted =>
        /\ \A k \in FilterFields(prev.operations) :
               Count(BulkSelections, k) =
                   IF k \in Range(Requested) THEN Count(Requested, k) ELSE 1
        /\ SubSeq(BulkSelections, 1, Len(Requested)) = Requested
        /\ doc.compacted.nested_selection = Requested
        /\ \A k \in FilterFields(prev.operations) \ Range(Requested) :
               k \in Range(BulkSelections) /\ k \notin Range(doc.compacted.nested_selection)

\* Witness of C9: a compacted batch with a key the caller requested and a
\* key the caller did not request.
C9_Witness ==
    /\ Compacted
    /\ \E k \in FilterFields(prev.operations) : k \in Range(Requested)
    /\ \E k \in FilterFields(prev.operations) :
           /\ k \notin Range(Requested)
           /\ Count(BulkSelections, k) = 1

\* A filter made of scalar-equals and compound-equals entries only.
PureEqualsFilter(op) ==
    /\ is_find_unique(op)
    /\ \A i \in 1..Len(where_obj_of(op)) :
           LET key == where_obj_of(op)[i][1]
               val == where_obj_of(op)[i][2]
               model == FieldModel(op.name)
           IN \/ find_from_scalar(model, key) /\ val.tag \in {"Scalar", "Object"}
                     /\ EqualityTest(val)
              \/ resolve_compound_field(key, model) /\ val.tag = "Object"

\* The (field, value) pairs of the bulk read's membership filter.
BulkFilter == doc.compacted.operation.arguments[1][2].obj

\* C10: every non-empty batch (one operation included) of find-unique
\* operations on the same field, with identical nested-selection name sets
\* and pure scalar-equals or compound-equals filters, is compacted; the bulk
\* filter's field set is the union of the members' flattened filter fields,
\* and for a batch of one operation the filter holds exactly that
\* operation's key.
C10_PureEqualsBatchCompacted ==
    ( /\ Compacting
      /\ prev.operations # <<>>
      /\ \A i \in 1..Len(prev.operations) :
             /\ PureEqualsFilter(prev.operations[i])
             /\ prev.operations[i].name = prev.operations[1].name
             /\ NameSet(prev.operations[i]) = NameSet(prev.operations[1]) )
        => /\ is_compact(doc)
           /\ {BulkFilter[j][1] : j \in 1..Len(BulkFilter)} = FilterFields(prev.operations)
           /\ Len(prev.operations) = 1 => BulkFilter = FlatFilter(prev.operations[1])

(***************************************************************************)
(* Properties of the nested-write builders                                 *)
(***************************************************************************)
Nodes(kind) == {n \in 1..Len(graph.nodes) : graph.nodes[n].kind = kind}

\* The edges created by nested_update / nested_update_many whose closure ran.
RanEdges(fn) == {e \in ran : graph.edges[e].closure.fn = fn}

\* The identifiers the find step of edge e returned.
Returned(e) == found[graph.edges[e].from]

Target(e) == graph.nodes[graph.edges[e].to]

\* The filter an input item supplies (the empty filter when it supplies none).
SuppliedFilter(value) ==
    IF value.where = "absent" \/ (~call.field.is_list /\ ~value.envelope)
    THEN EmptyFilter
    ELSE value.where

C5_LastIdentifierSelected ==
    /\ \A e \in RanEdges("set_selectors") :
           Returned(e) # <<>> =>
               Target(e).selectors = Some(<<Returned(e)[Len(Returned(e))]>>)
    /\ (\A e \in RanEdges("set_selectors") : Returned(e) # <<>>) => failure = None

\* Witness of C5: the find step returned two different identifiers and the
\* closure has run.
C5_Witness ==
    \E e \in RanEdges("set_selectors") :
        /\ Len(Returned(e)) = 2
        /\ Returned(e)[1] # Returned(e)[2]
        /\ Target(e).selectors = Some(<<Returned(e)[2]>>)

\* C6: when the find step returns no identifier the closure of nested_update
\* fails with RecordNotFound naming the child model and the relation of the
\* parent relation field; the update node is not returned, so it is never
\* finalized or executed.
C6_NoMatchRecordNotFound ==
    \A e \in RanEdges("set_selectors") :
        Returned(e) = <<>> =>
            /\ failure = Some(Err("RecordNotFound", call.child_model, call.field.relation))
            /\ Target(e).selectors = None
            /\ graph.edges[e].to \notin finalized
            /\ graph.edges[e].to \notin DOMAIN found

\* Witness of C6: a nested update on a to-one relation whose find step
\* returned nothing.
C6_Witness ==
    /\ ~call.field.is_list
    /\ \E e \in RanEdges("set_selectors") : Returned(e) = <<>>
    /\ failure # None

\* C7: the closure of nested_update_many never fails; it installs all the
\* identifiers returned as the update-many node's record filter, and for no
\* identifier the node gets an empty record filter (zero records).
C7_UpdateManyInstallsAll ==
    /\ \A e \in RanEdges("set_record_filter") :
           /\ Target(e).selectors = Some(Returned(e))
           /\ Target(e).filter = EmptyFilter
    /\ call.fn = "nested_update_many" => failure = None

\* Witness of C7: an update-many executed after its find step returned
\* nothing, next to one whose find step returned two identifiers.
C7_Witness ==
    \E e1, e2 \in RanEdges("set_record_filter") :
        /\ Returned(e1) = <<>>
        /\ Target(e1).selectors = Some(<<>>)
        /\ graph.edges[e1].to \in DOMAIN found
        /\ Len(Returned(e2)) = 2
        /\ graph.edges[e2].to \in DOMAIN found

\* C11: whenever can_compact accepts a batch, from_operations and
\* extract_filter reach none of their failure points: the batch has a first
\* element, every operation is a read whose first argument is an object, and
\* every object-valued filter entry that is not a compound key has an
\* "equals" entry; compaction then yields the Compact document.
C11_AcceptedBatchNeverPanics ==
    (Compacting /\ can_compact(prev)) =>
        /\ ~from_operations_panics(prev.operations)
        /\ prev.operations # <<>>
        /\ \A i \in 1..Len(prev.operations) :
               LET op == prev.operations[i]
               IN /\ op.kind = "Read"
                  /\ op.arguments # <<>>
                  /\ op.arguments[1][2].tag = "Object"
                  /\ \A j \in 1..Len(where_obj_of(op)) :
                         LET key == where_obj_of(op)[j][1]
                             val == where_obj_of(op)[j][2]
                         IN (val.tag = "Object"
                                /\ ~resolve_compound_field(key, FieldModel(prev.operations[1].name)))
                                => HasEquals(val.obj)
        /\ doc.tag = "Compact"

\* Witness of C11: an accepted batch with a compound key and with a scalar
\* filter object, flattened without failure.
C11_Witness ==
    /\ Compacted
    /\ \E i, j \in 1..Len(prev.operations) :
           /\ where_obj_of(prev.operations[i])[1][1] = "id_email"
           /\ where_obj_of(prev.operations[j])[1][1] = "id"
           /\ where_obj_of(prev.operations[j])[1][2].tag = "Object"

\* The value of the first "equals" entry of a filter object.
EqualsValue(obj) ==
    LET hits == {i \in 1..Len(obj) : obj[i][1] = EQUALS}
    IN obj[CHOOSE i \in hits : \A j \in hits : i <= j][2]

\* The flattening of a unique filter, entry by entry in entry order:
\* compound key -> its component pairs; other object -> (key, equals value);
\* anything else -> (key, value).
RECURSIVE ExpectedFlat(_, _)
ExpectedFlat(where_obj, model) ==
    IF where_obj = <<>> THEN <<>>
    ELSE LET key == Head(where_obj)[1]
             val == Head(where_obj)[2]
             pairs == CASE val.tag = "Object" /\ resolve_compound_field(key, model) -> val.obj
                        [] val.tag = "Object" /\ ~resolve_compound_field(key, model) ->
                               << <<key, EqualsValue(val.obj)>> >>
                        [] OTHER -> << <<key, val>> >>
         IN pairs \o ExpectedFlat(Tail(where_obj), model)

\* C13: extract_filter flattens a unique filter entry by entry, in entry
\* order: a compound key yields its component (field, value) pairs, any
\* other object yields (key, value of its "equals" entry), a non-object
\* value yields (key, value); no other pair is produced and none is dropped.
\* The bulk filter of a compacted batch is these pairs, operation after
\* operation.
C13_FilterFlattenedEntryByEntry ==
    Compacted =>
        /\ \A i \in 1..Len(prev.operations) :
               extract_filter(where_obj_of(prev.operations[i]), FieldModel(prev.operations[1].name))
                   = ExpectedFlat(where_obj_of(prev.operations[i]), FieldModel(prev.operations[1].name))
        /\ BulkFilter =
               Flatten([i \in 1..Len(prev.operations) |->
                   ExpectedFlat(where_obj_of(prev.operations[i]), FieldModel(prev.operations[1].name))])

\* Witness of C13: a compacted batch with a compound key, a two-entry filter
\* holding an "equals" object, and a filter object with "equals" after
\* another entry.
C13_Witness ==
    /\ Compacted
    /\ \E i, j, k \in 1..Len(prev.operations) :
           /\ where_obj_of(prev.operations[i])[1][1] = "id_email"
           /\ Len(where_obj_of(prev.operations[j])) = 2
           /\ Len(where_obj_of(prev.operations[k])[1][2].obj) = 2
           /\ where_obj_of(prev.operations[k])[1][1] = "id"

\* The transaction descriptor a BatchDocument carries: the second field of
\* Multi; Compact(CompactedDocument) has none.
TransactionOf(d) == IF d.tag = "Multi" THEN d.transaction ELSE None

\* C14 as stated: after compact() on a transactional batch, compacted or
\* not, the resulting BatchDocument still carries the transaction descriptor
\* with the isolation level given to new().
C14_TransactionKept ==
    (Compacting /\ prev.transaction # None) =>
        /\ TransactionOf(doc) = prev.transaction
        /\ isolation_level(TransactionOf(doc).value) = isolation_level(prev.transaction.value)

\* C14 amended: isolation_level() returns exactly the value given to new();
\* compact() on a transactional batch that is not compacted returns the
\* batch with the same transaction descriptor and isolation level; when the
\* batch is compacted the resulting Compact document carries no transaction
\* descriptor, so the isolation level is not passed on.
C14_TransactionKeptUnlessCompacted ==
    (Compacting /\ prev.transaction # None) =>
        /\ isolation_level(BatchDocumentTransaction(prev.transaction.value.isolation_level))
               = prev.transaction.value.isolation_level
        /\ ~is_compact(doc) =>
               /\ doc.tag = "Multi"
               /\ doc.transaction = prev.transaction
               /\ isolation_level(doc.transaction.value) = isolation_level(prev.transaction.value)
        /\ is_compact(doc) =>
               /\ TransactionOf(doc) = None
               /\ "transaction" \notin DOMAIN doc
               /\ "transaction" \notin DOMAIN doc.compacted

\* Witness of C14: a transactional batch with an isolation level that
\* compact() has left uncompacted.
C14_Witness ==
    /\ Compacting
    /\ prev.operations # <<>>
    /\ prev.transaction = Some(BatchDocumentTransaction(Some("Serializable")))
    /\ doc.tag = "Multi"
    /\ isolation_level(doc.transaction.value) = Some("Serializable")

\* The update nodes the two builders create.
UpdateNodes == Nodes("UpdateRecord") \cup Nodes("UpdateManyRecords")

\* The find-children node built for the same item as update node u.
FindOf(u) == {f \in Nodes("FindChildren") : graph.nodes[f].item = graph.nodes[u].item}

\* The Projected-Data Dependency edges from find node f to update node u.
DependencyEdges(f, u) ==
    {e \in 1..Len(graph.edges) :
        /\ graph.edges[e].from = f
        /\ graph.edges[e].to = u
        /\ graph.edges[e].dependency = "ProjectedDataDependency"}

\* In a built graph every update node has its find node and the edge between
\* them; the update node is finalized only after the find node has completed
\* and the closure has run, the closure has run only after the find node has
\* completed, and the update node reaches the storage layer only finalized.
C12_Order ==
    result = Ok =>
        \A u \in 1..Len(graph.nodes) :
            graph.nodes[u].kind \in {"UpdateRecord", "UpdateManyRecords"} =>
                LET into == {e \in 1..Len(graph.edges) :
                                /\ graph.edges[e].to = u
                                /\ graph.edges[e].dependency = "ProjectedDataDependency"}
                IN /\ u \in DOMAIN found => u \in finalized
                   /\ Cardinality(into) = 1
                   /\ \A e \in into :
                          LET f == graph.edges[e].from
                          IN /\ graph.nodes[f].kind = "FindChildren"
                             /\ graph.nodes[f].item = graph.nodes[u].item
                             /\ u \in finalized =>
                                    f \in finalized /\ f \in DOMAIN found /\ e \in ran
                             /\ e \in ran => f \in DOMAIN found

\* A step that runs the closure of an edge finds the parent completed and the
\* child not finalized, and leaves the child not finalized; a closure that
\* has run does not run again: the edge stays run and its child node is no
\* longer changed.
C12_ClosureStep ==
    (ran' # ran \/ graph'.nodes # graph.nodes) =>
        \A e \in ran \cup ran' :
            LET f == graph.edges[e].from
                u == graph.edges[e].to
            IN graph.nodes[u].kind \in {"UpdateRecord", "UpdateManyRecords"} =>
                   /\ (e \notin ran /\ e \in ran') =>
                          /\ f \in DOMAIN found
                          /\ u \notin finalized
                          /\ u \notin finalized'
                          /\ u \notin DOMAIN found'
                   /\ e \in ran =>
                          /\ e \in ran'
                          /\ graph'.nodes[u] = graph.nodes[u]

\* C12: in every execution of a graph built by nested_update or
\* nested_update_many, for each Projected-Data Dependency edge the
\* find-children node completes before the update node is finalized, the
\* edge's closure runs exactly once between those two events, and the update
\* node is never handed to the storage layer before it is finalized.
C12_ParentBeforeChild == [][C12_ClosureStep]_vars /\ []C12_Order

\* Witness of C12: two items; the second item's find node has completed, its
\* closure has run and its update node has been finalized and executed while
\* the first item's find node, with no edge path to it, has not been
\* finalized.
C12_Witness ==
    /\ Running
    /\ Len(call.value) = 2
    /\ \E u1, u2 \in UpdateNodes :
           /\ graph.nodes[u1].item = 1
           /\ graph.nodes[u2].item = 2
           /\ u2 \in finalized
           /\ u2 \in DOMAIN found
           /\ \E f2 \in FindOf(u2) : DependencyEdges(f2, u2) \subseteq ran /\ f2 \in DOMAIN found
           /\ \A f1 \in FindOf(u1) : f1 \notin finalized
           /\ u1 \notin finalized

\* Nodes and edges one item of nested_update adds to the graph.
NodesPerItem == IF call.emulate THEN 3 ELSE 2
EdgesPerItem == IF call.emulate THEN 4 ELSE 2

\* Positions of what item i has added, in creation order.
FindNodeOf(i) == 1 + (i - 1) * NodesPerItem + 1
UpdateNodeOf(i) == FindNodeOf(i) + 1
ParentEdgeOf(i) == (i - 1) * EdgesPerItem + 1
DependencyEdgeOf(i) == ParentEdgeOf(i) + 1

\* The edges of the emulation subtree.
EmulationEdges ==
    {e \in 1..Len(graph.edges) :
        \/ graph.nodes[graph.edges[e].from].kind = "EmulatedOnUpdate"
        \/ graph.nodes[graph.edges[e].to].kind = "EmulatedOnUpdate"}

\* C15: after nested_update returns Ok for an input of k items, the graph has
\* gained, per item and in item order, one find-children-by-parent node
\* attached to the given parent and scoped by that item's filter (the empty
\* filter when a to-one item supplies none), one update node, and one
\* Projected-Data Dependency edge from that item's find node to that item's
\* update node on the child model's primary identifier; the edge is created
\* before the emulation subtree is inserted between the two nodes, and no
\* edge connects nodes of different items.
C15_GraphGainedPerItem ==
    (call.fn = "nested_update" /\ result = Ok) =>
        LET k == Len(call.value)
        IN /\ Len(graph.nodes) = 1 + k * NodesPerItem
           /\ Len(graph.edges) = k * EdgesPerItem
           /\ \A i \in 1..k :
                  LET find == graph.nodes[FindNodeOf(i)]
                      update == graph.nodes[UpdateNodeOf(i)]
                      attach == graph.edges[ParentEdgeOf(i)]
                      edge == graph.edges[DependencyEdgeOf(i)]
                  IN /\ find.kind = "FindChildren"
                     /\ find.item = i
                     /\ find.model = call.field.related_model
                     /\ find.filter = SuppliedFilter(call.value[i])
                     /\ attach.from = call.parent
                     /\ attach.to = FindNodeOf(i)
                     /\ update.kind = "UpdateRecord"
                     /\ update.item = i
                     /\ update.model = call.child_model
                     /\ {n \in 1..Len(graph.nodes) : graph.nodes[n].item = i}
                            = FindNodeOf(i)..(FindNodeOf(i) + NodesPerItem - 1)
                     /\ DependencyEdges(FindNodeOf(i), UpdateNodeOf(i)) = {DependencyEdgeOf(i)}
                     /\ edge.field = primary_identifier(call.field.related_model)
                     /\ edge.closure.fn = "set_selectors"
           /\ \A e \in EmulationEdges :
                  LET i == graph.nodes[graph.edges[e].to].item
                  IN /\ e > DependencyEdgeOf(i)
                     /\ \/ graph.edges[e].from = FindNodeOf(i)
                        \/ graph.edges[e].to = UpdateNodeOf(i)
           /\ \A e \in 1..Len(graph.edges) :
                  \/ graph.edges[e].from = call.parent
                  \/ graph.nodes[graph.edges[e].from].item = graph.nodes[graph.edges[e].to].item

\* Witness of C15: nested_update has returned Ok for two items with
\* different filters, with the emulation subtree inserted.
C15_Witness ==
    /\ call.fn = "nested_update"
    /\ result = Ok
    /\ call.emulate
    /\ Len(call.value) = 2
    /\ graph.nodes[FindNodeOf(1)].filter # graph.nodes[FindNodeOf(2)].filter
    /\ Nodes("EmulatedOnUpdate") # {}
    /\ Len(graph.nodes) = 7

\* An item the builders reject with an error: it is no map where one is
\* required, its where entry is no map or resolves to no filter, or its data
\* is no map.
Malformed(value) ==
    LET listed == call.fn = "nested_update_many" \/ call.field.is_list
    IN \/ listed /\ ~value.map
       \/ (listed \/ (value.map /\ value.envelope))
              /\ value.where \in {"scalar", "unresolvable"}
       \/ value.data = "scalar"
       \/ ~listed /\ ~value.map

\* s is a prefix of t.
Prefix(s, t) == Len(s) <= Len(t) /\ SubSeq(t, 1, Len(s)) = s

\* A step of the loop over the items keeps every node and edge built so far,
\* adds nodes of the current item only, stops with the error of the current
\* item when that item is malformed and moves to the next item otherwise;
\* once the error is returned nothing more is built.
C16_FailStep ==
    /\ (result = Building /\ next_item <= Len(call.value)) =>
           /\ Prefix(graph.nodes, graph'.nodes)
           /\ Prefix(graph.edges, graph'.edges)
           /\ \A n \in (Len(graph.nodes) + 1)..Len(graph'.nodes) :
                  graph'.nodes[n].item = next_item
           /\ \A e \in (Len(graph.edges) + 1)..Len(graph'.edges) :
                  graph'.nodes[graph'.edges[e].to].item = next_item
           /\ Malformed(call.value[next_item]) =>
                  /\ result'.tag = "Err"
                  /\ result'.model = call.child_model
                  /\ result'.relation = call.field.relation
                  /\ next_item' = next_item
           /\ ~Malformed(call.value[next_item]) =>
                  /\ result' = Building
                  /\ next_item' = next_item + 1
    /\ result.tag = "Err" => UNCHANGED <<graph, result, next_item>>

\* The nodes built for item j.
NodesOf(j) == {n \in 1..Len(graph.nodes) : graph.nodes[n].item = j}

\* After a failed build the failing item i is the malformed one, nothing of
\* an item after i is in the graph, and every item before i has its find
\* node, attached to the parent, its update node and the edge between them.
C16_FailedBuild ==
    result.tag = "Err" =>
        /\ next_item <= Len(call.value)
        /\ Malformed(call.value[next_item])
        /\ \A n \in 1..Len(graph.nodes) : graph.nodes[n].item <= next_item
        /\ \A e \in 1..Len(graph.edges) : graph.nodes[graph.edges[e].to].item <= next_item
        /\ finalized = {} /\ ran = {} /\ found = <<>>
        /\ \A j \in 1..(next_item - 1) :
               /\ ~Malformed(call.value[j])
               /\ \E f, u \in NodesOf(j) :
                      /\ graph.nodes[f].kind = "FindChildren"
                      /\ graph.nodes[f].filter = call.value[j].where
                             \/ graph.nodes[f].filter = EmptyFilter
                      /\ u \in UpdateNodes
                      /\ graph.nodes[u].data = call.value[j].data
                      /\ graph.nodes[u].selectors = None
                      /\ Cardinality(DependencyEdges(f, u)) = 1
                      /\ Cardinality(DependencyEdges(call.parent, f)) = 1
                      /\ NodesOf(j) \ {f, u} \subseteq Nodes("EmulatedOnUpdate")
                      /\ Cardinality(NodesOf(j)) = 2 + Cardinality(NodesOf(j) \ {f, u})

====
